---- MODULE Spec2Model ----
(***************************************************************************)
(* HID++ 2.0 client (fcoury/hidpp): the wire codec of lib.rs and the       *)
(* retrying Device of device.rs, as one state machine.  One step is one    *)
(* call of the underlying HID transport (open, write, read_timeout) or one *)
(* call of a public Device method from the idle program.  A panic          *)
(* (unwrap / expect on an Err) ends the program: pc = "panicked".          *)
(***************************************************************************)
EXTENDS Integers, Sequences, FiniteSets, TLC

\* ---------------------------------------------------------------- bounds
\* Number of public Device methods the program calls in one run.
MaxCalls == 3

\* ------------------------------------------------------ program constants
OpenRetryLimit == 5
WriteRetryLimit == 5
HeaderLen == 4
SendTake == 7
BuildTake == 3
ReadBufLen == 7
ReadTimeout == 100
DeviceIndex == 1
DefaultDeviceIndex == 255
DefaultSoftwareId == 1
RootIndex == 0
RootSeed == 0

\* ------------------------------------------------------------ lib.rs types
\* enum Feature in declaration order, the order all::<Feature>() yields.
Catalog ==
    << "Root", "FeatureSet", "FeatureInfo", "FirmwareInfo", "DeviceUnitId",
       "DeviceNameType", "BatteryLevelStatus", "UnifiedBattery" >>

Feature == { Catalog[i] : i \in DOMAIN Catalog }

Feature_value(f) ==
    CASE f = "Root" -> 0
      [] f = "FeatureSet" -> 1
      [] f = "FeatureInfo" -> 2
      [] f = "FirmwareInfo" -> 3
      [] f = "DeviceUnitId" -> 4
      [] f = "DeviceNameType" -> 5
      [] f = "BatteryLevelStatus" -> 4096
      [] f = "UnifiedBattery" -> 4100

Function ==
    { "RootGetFeature", "RootGetProtocolVersion",
      "UnifiedBatteryGetCapabilities", "UnifiedBatteryGetStatus" }

Function_value(fn) ==
    CASE fn = "RootGetFeature" -> 0
      [] fn = "RootGetProtocolVersion" -> 1
      [] fn = "UnifiedBatteryGetCapabilities" -> 0
      [] fn = "UnifiedBatteryGetStatus" -> 1

to_u8(report_id) ==
    CASE report_id = "Short" -> 16
      [] report_id = "Long" -> 17
      [] report_id = "VeryLong" -> 18

\* ------------------------------------------------------------ byte helpers
\* iter().copied().chain(repeat(0)).take(n): the first n bytes of s, zero-padded.
TakePad(s, n) == [ i \in 1..n |-> IF i <= Len(s) THEN s[i] ELSE 0 ]

\* A shift by three: the function index would overlap bit 3 of the low nibble.
Shl3(b) == (b * 8) % 256

\* u8 << 4: the bits shifted past bit 7 are dropped.
Shl4(b) == (b * 16) % 256

\* u8 >> 4
Shr4(b) == b \div 16

\* A mask of five bits: bit 4 of the function nibble would leak in.
LowFive(b) == b % 32

\* b & 0x0F
LowNibble(b) == b % 16

\* u16::to_le_bytes: the low byte first.
to_le_bytes(v) == << v % 256, v \div 256 >>

\* u16::to_be_bytes
to_be_bytes(v) == << v \div 256, v % 256 >>

\* ------------------------------------------------------- MessageBuilder
\* A builder whose default software_id is 0.
new_short_untagged(feature_index, function) ==
    [ report_id |-> "Short",
      device_index |-> DefaultDeviceIndex,
      feature_index |-> feature_index,
      function_index |-> Function_value(function),
      software_id |-> 0,
      data |-> << >> ]

new_short(feature_index, function) ==
    [ report_id |-> "Short",
      device_index |-> DefaultDeviceIndex,
      feature_index |-> feature_index,
      function_index |-> Function_value(function),
      software_id |-> DefaultSoftwareId,
      data |-> << >> ]

set_device_index(b, device_index) == [ b EXCEPT !.device_index = device_index ]

set_function_index(b, function_index) == [ b EXCEPT !.function_index = function_index ]

set_software_id(b, software_id) == [ b EXCEPT !.software_id = software_id ]

set_data(b, data) == [ b EXCEPT !.data = data ]

add_u16(b, v) == [ b EXCEPT !.data = @ \o to_be_bytes(v) ]

build(b) == [ b EXCEPT !.data = TakePad(@, BuildTake) ]

\* ---------------------------------------------------------------- Message
\* The buffer Message::send hands to Device::write: four header bytes, then
\* take(SendTake) of the zero-padded data.  (a << 4 | b & 0x0F parses as
\* (a << 4) | (b & 0x0F); the two operands share no bit, so | is +.)
send_buf(msg) ==
    << to_u8(msg.report_id),
       msg.device_index,
       msg.feature_index,
       Shl4(msg.function_index) + LowNibble(msg.software_id) >>
    \o TakePad(msg.data, SendTake)

\* impl TryFrom<Vec<u8>> for Message.  buf[0] is read first (an empty
\* buffer panics), an unknown tag bails before any other byte is read, and
\* buf[1..3] / buf[4..] panic on a buffer shorter than four bytes.
try_from(buf) ==
    IF Len(buf) = 0 THEN [ kind |-> "panic", error |-> "IndexOutOfBounds" ]
    ELSE IF buf[1] \notin {16, 17, 18}
    THEN [ kind |-> "err", error |-> "UnknownReportId" ]
    ELSE IF Len(buf) < HeaderLen
    THEN [ kind |-> "panic", error |-> "IndexOutOfBounds" ]
    ELSE [ kind |-> "ok",
           error |-> "none",
           msg |-> [ report_id |-> CASE buf[1] = 16 -> "Short"
                                     [] buf[1] = 17 -> "Long"
                                     [] buf[1] = 18 -> "VeryLong",
                     device_index |-> buf[2],
                     feature_index |-> buf[3],
                     function_index |-> Shr4(buf[4]),
                     software_id |-> LowNibble(buf[4]),
                     data |-> SubSeq(buf, HeaderLen + 1, Len(buf)) ] ]

\* ------------------------------------------------------ battery decoders
\* A status table that also takes 0x07.
BatteryStatus_accepting_seven(value) ==
    CASE value = 0 -> [ kind |-> "ok", v |-> "Discharging" ]
      [] value = 1 -> [ kind |-> "ok", v |-> "Recharging" ]
      [] value = 2 -> [ kind |-> "ok", v |-> "AlmostFull" ]
      [] value = 3 -> [ kind |-> "ok", v |-> "Full" ]
      [] value = 4 -> [ kind |-> "ok", v |-> "SlowRecharge" ]
      [] value = 5 -> [ kind |-> "ok", v |-> "InvalidBattery" ]
      [] value \in 6..7 -> [ kind |-> "ok", v |-> "ThermalError" ]
      [] OTHER -> [ kind |-> "err", v |-> "InvalidBatteryStatus" ]

BatteryStatus_try_from(value) ==
    CASE value = 0 -> [ kind |-> "ok", v |-> "Discharging" ]
      [] value = 1 -> [ kind |-> "ok", v |-> "Recharging" ]
      [] value = 2 -> [ kind |-> "ok", v |-> "AlmostFull" ]
      [] value = 3 -> [ kind |-> "ok", v |-> "Full" ]
      [] value = 4 -> [ kind |-> "ok", v |-> "SlowRecharge" ]
      [] value = 5 -> [ kind |-> "ok", v |-> "InvalidBattery" ]
      [] value = 6 -> [ kind |-> "ok", v |-> "ThermalError" ]
      [] OTHER -> [ kind |-> "err", v |-> "InvalidBatteryStatus" ]

\* A level partition whose Low range ends at 4.
BatteryLevel_low_to_four(value) ==
    CASE value = 0 -> [ kind |-> "ok", v |-> "Empty" ]
      [] value = 1 -> [ kind |-> "ok", v |-> "Critical" ]
      [] value \in 2..4 -> [ kind |-> "ok", v |-> "Low" ]
      [] value \in 5..7 -> [ kind |-> "ok", v |-> "Good" ]
      [] value = 8 -> [ kind |-> "ok", v |-> "Full" ]
      [] OTHER -> [ kind |-> "err", v |-> "InvalidBatteryLevel" ]

BatteryLevel_try_from(value) ==
    CASE value = 0 -> [ kind |-> "ok", v |-> "Empty" ]
      [] value = 1 -> [ kind |-> "ok", v |-> "Critical" ]
      [] value \in 2..3 -> [ kind |-> "ok", v |-> "Low" ]
      [] value \in 4..7 -> [ kind |-> "ok", v |-> "Good" ]
      [] value = 8 -> [ kind |-> "ok", v |-> "Full" ]
      [] OTHER -> [ kind |-> "err", v |-> "InvalidBatteryLevel" ]

\* ------------------------------------------------------------- environment
\* Bytes read_timeout can deliver into the 7-byte buffer: nothing (the
\* timeout elapsed), a partial report, a whole report.
ReadLens == { 0, 5, 7 }

\* Report tags the device can put in byte 0: Short, Long, unknown.
Tags == { 16, 17, 19 }

\* Index the device can answer to Root.GetFeature(f).
IndexChoices(f) ==
    CASE f = "Root" -> {0, 5}
      [] f = "FeatureSet" -> {1}
      [] f = "FeatureInfo" -> {2}
      [] f = "FirmwareInfo" -> {3}
      [] f = "DeviceUnitId" -> {4}
      [] f = "DeviceNameType" -> {5}
      [] f = "BatteryLevelStatus" -> {0}
      [] f = "UnifiedBattery" -> {0, 6}

\* Payloads the device can answer to a feature request.
RespPayloads == { <<55, 4, 1>>, <<55, 9, 1>>, <<55, 4, 7>> }

\* Frames the program hands to the public Device::write.
RawFrames == { <<16, 1, 0, 17, 0, 0, 170>> }

\* Arguments the program passes to send_feature.
SendArgs ==
    { [ feature |-> "Root", function |-> "RootGetProtocolVersion", payload |-> << >> ],
      [ feature |-> "FeatureSet", function |-> "RootGetFeature", payload |-> <<170>> ],
      [ feature |-> "UnifiedBattery", function |-> "UnifiedBatteryGetStatus",
        payload |-> <<170, 187, 204, 221>> ] }

\* --------------------------------------------------------------- state
VARIABLES
    pc,             \* "start" | "idle" | "open" | "opened" | "write" | "read" | "panicked"
    call,           \* the public method in progress, or the last one called
    args,           \* its arguments
    calls,          \* public methods called so far
    ret,            \* what the method returned (kind "none" while it runs)
    openFor,        \* who called Device::open: "new" | "reconnect" | "write"
    attemptOpen,    \* retry_with_index's current_try in Device::open
    attemptWrite,   \* retry_with_index's current_try in Device::write
    device,         \* Device.device: the handle held (0: no Device yet)
    handles,        \* HidDevice values alive
    opened,         \* the handle the last successful open returned
    features_index, \* Device.features_index
    initPos,        \* init: position in the catalog
    initLocal,      \* init: the local features_index being built
    buf,            \* Device::write's buf argument
    n,              \* transport calls counted per Device::open / Device::write
    wire,           \* the buffer last handed to the underlying write
    readReq,        \* the latest read_timeout: buffer length, timeout, handle
    rbuf,           \* Device::write's read buffer after read_timeout
    wres,           \* what Device::write returned: "none" | "ok" | "err"
    atCall,         \* features_index and device when the method was called; for a
                    \* lookup that follows a lookup, also that one and its result
    answers,        \* init: data[0] of each response, in request order
    lastInit,       \* answers of the latest completed init
    prevInit,       \* lastInit as it was when the running init was called
    cstep,          \* codec run: which pure function was applied last ("off": none)
    cframe,         \* codec run: the byte sequence given to try_from
    cmsg,           \* codec run: the Message given to send
    cbyte,          \* codec run: the byte given to a battery decoder
    cout,           \* codec run: the buffer Message::send built
    cres            \* codec run: what the decoder returned

vars ==
    << pc, call, args, calls, ret, openFor, attemptOpen, attemptWrite, device,
       handles, opened, features_index, initPos, initLocal, buf, n,
       wire, readReq, rbuf, wres, atCall, answers,
       lastInit, prevInit, cstep, cframe, cmsg, cbyte, cout, cres >>

NoMsg ==
    [ report_id |-> "None", device_index |-> 0, feature_index |-> 0,
      function_index |-> 0, software_id |-> 0, data |-> << >> ]

NoRet ==
    [ kind |-> "none", error |-> "none", cause |-> "none", attempt |-> 0,
      bytes |-> << >>,
      msg |-> NoMsg, idx |-> -1, battery |-> << >> ]

NoArgs == [ feature |-> "none", function |-> "none", payload |-> << >> ]

\* No earlier call is remembered.
NoLast == [ call |-> "none", feature |-> "none", kind |-> "none", idx |-> -1 ]

NoRead == [ len |-> 0, timeout |-> 0, handle |-> 0, got |-> -1 ]

NoCount ==
    [ open |-> 0, openFail |-> 0, openTotal |-> 0, write |-> 0, wfail |-> 0,
      rcStart |-> 0, rcDone |-> 0, read |-> 0, req |-> 0 ]

RetOk == [ NoRet EXCEPT !.kind = "ok" ]
RetErr(error, cause) == [ NoRet EXCEPT !.kind = "err", !.error = error, !.cause = cause ]
RetPanic(error, cause) == [ NoRet EXCEPT !.kind = "panic", !.error = error, !.cause = cause ]

\* The codec variables of a run of the Device.
CodecOff ==
    /\ cstep = "off"
    /\ cframe = << >>
    /\ cmsg = NoMsg
    /\ cbyte = 0
    /\ cout = << >>
    /\ cres = [ kind |-> "none" ]

\* The program before Device::new.
InitDevice ==
    /\ pc = "start"
    /\ call = "none"
    /\ args = NoArgs
    /\ calls = 0
    /\ ret = NoRet
    /\ openFor = "none"
    /\ attemptOpen = 0
    /\ attemptWrite = 0
    /\ device = 0
    /\ handles = {}
    /\ opened = 0
    /\ features_index = << >>
    /\ initPos = 0
    /\ initLocal = << >>
    /\ buf = << >>
    /\ n = NoCount
    /\ wire = << >>
    /\ readReq = NoRead
    /\ rbuf = << >>
    /\ wres = "none"
    /\ atCall = [ table |-> << >>, device |-> 0, last |-> NoLast ]
    /\ answers = << >>
    /\ lastInit = [ done |-> FALSE, answers |-> << >> ]
    /\ prevInit = [ done |-> FALSE, answers |-> << >> ]

Init == InitDevice /\ CodecOff

\* ------------------------------------------------------ device.rs: policy
\* A closure that allows one more failed open.
open_gives_up_late(attempt) == attempt > OpenRetryLimit + 1

\* A closure that gives up one attempt early.
open_gives_up_early(attempt) == attempt >= OpenRetryLimit

\* Device::open's closure gives up on a failed attempt numbered above 5.
open_gives_up(attempt) == attempt > OpenRetryLimit

\* A closure that allows one more failed write.
write_gives_up_late(attempt) == attempt > WriteRetryLimit + 1

\* Device::write's closure gives up on a failed attempt numbered above 5.
write_gives_up(attempt) == attempt > WriteRetryLimit

\* A closure that reconnects only from the second failed write on.
write_reconnects_late(attempt) == attempt > 1

\* A failed attempt of Device::write that is not given up on reconnects
\* before it asks for a retry: self.reconnect().unwrap(), on every attempt.
write_reconnects(attempt) == attempt >= 1

\* A lookup that answers the entry's successor instead of the entry.
index_for_successor(table, feature) ==
    IF feature \in DOMAIN table
    THEN [ kind |-> "ok", error |-> "none", idx |-> (table[feature] + 1) % 256 ]
    ELSE [ kind |-> "err", error |-> "FeatureNotFound", idx |-> -1 ]

\* A lookup that falls back to index 0 for a feature without an entry.
index_for_or_zero(table, feature) ==
    IF feature \in DOMAIN table
    THEN [ kind |-> "ok", error |-> "none", idx |-> table[feature] ]
    ELSE [ kind |-> "ok", error |-> "none", idx |-> 0 ]

\* A reconnect that builds the Device anew, as Device::new does.
reconnect_rebuilds(self, handle) == [ device |-> handle, features_index |-> << >> ]

\* Device::reconnect on success: self.device = <the handle just opened>.
reconnect_assign(self, handle) == [ self EXCEPT !.device = handle ]

\* Device::index_for
index_for(table, feature) ==
    IF feature \in DOMAIN table
    THEN [ kind |-> "ok", error |-> "none", idx |-> table[feature] ]
    ELSE [ kind |-> "err", error |-> "FeatureNotFound", idx |-> -1 ]

\* The request Device::get_feature_index builds.
get_feature_index_request(feature) ==
    build(add_u16(set_device_index(new_short(RootIndex, "RootGetFeature"), DeviceIndex),
                  Feature_value(feature)))

\* What Device::get_feature_index returns for a decoded response.
get_feature_index_result(response) == response.data[1]

\* The request Device::send_feature builds for a resolved index.
send_feature_request(index, function, payload) ==
    build(set_data(set_device_index(new_short(index, function), DeviceIndex), payload))

\* Message::send after Device::write returned: `?` on the write, then try_from.
send_result(w, bytes) ==
    IF w = "ok" THEN try_from(bytes) ELSE [ kind |-> "err", error |-> "ReadError" ]

\* A walk that stops before the last feature of the catalog.
init_features_short == SubSeq(Catalog, 1, Len(Catalog) - 1)

\* Device::init: the local map's seed, the features it walks, insert, and
\* the final assignment to self.features_index.
init_seed == "Root" :> RootSeed

init_features == Catalog

init_insert(local, feature, index) == (feature :> index) @@ local

\* An init that keeps the entries the table already had.
init_commit_merge(old, local) == old @@ local

init_commit(old, local) == local

\* Device::get_battery on the response of send_feature.
get_battery_result(result) ==
    LET level == BatteryLevel_try_from(result.data[2])
        status == BatteryStatus_try_from(result.data[3])
    IN  IF level.kind = "err" THEN RetErr(level.v, "decode")
        ELSE IF status.kind = "err" THEN RetErr(status.v, "decode")
        ELSE [ RetOk EXCEPT !.battery = << result.data[1], level.v, status.v >> ]

\* A read on the handle the Device had when the method was called.
read_handle_at_call(current, first) == first

\* Device::write reads on self.device as it is after the retry loop.
read_handle(current, first) == current

\* The buffer Device::write returns after read_timeout delivered the first
\* len bytes of frame into [0u8; 7]: the whole buffer, whatever len was.
read_buffer(frame, len) == TakePad(SubSeq(frame, 1, len), ReadBufLen)

\* hidapi hands out a handle that no live HidDevice uses.
fresh_handle == CHOOSE h \in 1..3 : h \notin handles /\ \A g \in 1..3 : g < h => g \in handles

\* Frames the device can answer to the request in buf.
DeviceFrames ==
    IF call = "init"
    THEN { << t, buf[2], buf[3], buf[4], i, 0, 0 >> :
             t \in Tags, i \in IndexChoices(init_features[initPos]) }
    ELSE { << t, buf[2], buf[3], buf[4] >> \o p : t \in Tags, p \in RespPayloads }

\* ------------------------------------------------------- step bookkeeping
Begin(c, a) ==
    /\ calls < MaxCalls
    /\ call' = c
    /\ args' = a
    /\ calls' = calls + 1
    /\ atCall' = [ table |-> features_index, device |-> device,
                   last |-> IF c = "index_for" /\ call = "index_for"
                            THEN [ call |-> call, feature |-> args.feature,
                                   kind |-> ret.kind, idx |-> ret.idx ]
                            ELSE NoLast ]
    /\ UNCHANGED << cstep, cframe, cmsg, cbyte, cout, cres >>

StartOpen(ctx, n0) ==
    /\ pc' = "open"
    /\ openFor' = ctx
    /\ attemptOpen' = 1
    /\ n' = [ n0 EXCEPT !.open = 0, !.openFail = 0 ]

StartWrite(b, n0) ==
    /\ pc' = "write"
    /\ buf' = b
    /\ attemptWrite' = 1
    /\ wire' = << >>
    /\ readReq' = NoRead
    /\ rbuf' = << >>
    /\ wres' = "none"
    /\ n' = [ n0 EXCEPT !.write = 0, !.wfail = 0, !.rcStart = 0, !.rcDone = 0,
                        !.read = 0, !.openTotal = 0, !.req = @ + 1 ]

Panic(error, cause) ==
    /\ pc' = "panicked"
    /\ ret' = RetPanic(error, cause)

ResetIo ==
    /\ wire' = << >>
    /\ readReq' = NoRead
    /\ rbuf' = << >>
    /\ wres' = "none"

handleVars == << device, handles, opened >>
tableVars == << features_index, initPos, initLocal, answers, lastInit, prevInit >>
openVars == << openFor, attemptOpen >>
ioVars == << attemptWrite, buf, wire, readReq, rbuf, wres >>
callVars == << call, args, calls, atCall, cstep, cframe, cmsg, cbyte, cout, cres >>

\* ------------------------------------------------- the program's calls
\* The locals of the methods that are not running.
NoOpen == openFor' = "none" /\ attemptOpen' = 0
NoWrite == attemptWrite' = 0 /\ buf' = << >> /\ ResetIo
NoInit == initPos' = 0 /\ initLocal' = << >> /\ answers' = << >>

\* Device::new(vendor_id, product_id)
CallNew ==
    /\ pc = "start"
    /\ Begin("new", NoArgs)
    /\ StartOpen("new", NoCount)
    /\ ret' = NoRet
    /\ NoWrite
    /\ NoInit
    /\ UNCHANGED << handleVars, features_index, lastInit, prevInit >>

\* device.reconnect()
CallReconnect ==
    /\ pc = "idle"
    /\ Begin("reconnect", NoArgs)
    /\ StartOpen("reconnect", NoCount)
    /\ ret' = NoRet
    /\ NoWrite
    /\ NoInit
    /\ UNCHANGED << handleVars, features_index, lastInit, prevInit >>

\* device.write(buf)
CallWrite ==
    /\ pc = "idle"
    /\ \E b \in RawFrames :
         /\ Begin("write", NoArgs)
         /\ StartWrite(b, NoCount)
    /\ ret' = NoRet
    /\ NoOpen
    /\ NoInit
    /\ UNCHANGED << handleVars, features_index, lastInit, prevInit >>

\* device.init(): seed the local map, send the first get_feature_index request.
CallInit ==
    /\ pc = "idle"
    /\ Begin("init", NoArgs)
    /\ initLocal' = init_seed
    /\ initPos' = 1
    /\ answers' = << >>
    /\ StartWrite(send_buf(get_feature_index_request(init_features[1])), NoCount)
    /\ ret' = NoRet
    /\ NoOpen
    /\ prevInit' = lastInit
    /\ UNCHANGED << handleVars, features_index, lastInit >>

\* device.index_for(feature)
CallIndexFor ==
    /\ pc = "idle"
    /\ \E f \in Feature :
         /\ Begin("index_for", [ NoArgs EXCEPT !.feature = f ])
         /\ LET r == index_for(features_index, f)
            IN  ret' = IF r.kind = "ok" THEN [ RetOk EXCEPT !.idx = r.idx ]
                       ELSE RetErr(r.error, "lookup")
    /\ n' = NoCount
    /\ NoOpen
    /\ NoWrite
    /\ NoInit
    /\ UNCHANGED << pc, handleVars, features_index, lastInit, prevInit >>

\* send_feature's first line: index_for(feature)? and, if that returned an
\* index, the request handed to Message::send.
SendFeatureStart(f, fn, p) ==
    LET r == index_for(features_index, f)
    IN  IF r.kind = "err"
        THEN /\ ret' = RetErr(r.error, "lookup")
             /\ n' = NoCount
                      /\ NoWrite
             /\ UNCHANGED pc
        ELSE /\ StartWrite(send_buf(send_feature_request(r.idx, fn, p)), NoCount)
             /\ ret' = NoRet

\* device.send_feature(feature, function, payload)
CallSendFeature ==
    /\ pc = "idle"
    /\ \E a \in SendArgs :
         /\ Begin("send_feature", a)
         /\ SendFeatureStart(a.feature, a.function, a.payload)
    /\ NoOpen
    /\ NoInit
    /\ UNCHANGED << handleVars, features_index, lastInit, prevInit >>

\* device.get_battery()
CallGetBattery ==
    /\ pc = "idle"
    /\ Begin("get_battery", [ feature |-> "UnifiedBattery",
                              function |-> "UnifiedBatteryGetStatus",
                              payload |-> << >> ])
    /\ SendFeatureStart("UnifiedBattery", "UnifiedBatteryGetStatus", << >>)
    /\ NoOpen
    /\ NoInit
    /\ UNCHANGED << handleVars, features_index, lastInit, prevInit >>

\* ------------------------------------------------------- Device::open
\* HidApi::new().unwrap() on a failed library initialisation.
open_hidapi_err ==
    /\ pc = "open"
    /\ Panic("HidApiInit", "unwrap")
    /\ UNCHANGED << callVars, handleVars, tableVars, openVars, ioVars, n >>

\* The underlying open returned a device: OperationResult::Ok.
open_ok ==
    /\ pc = "open"
    /\ opened' = fresh_handle
    /\ handles' = handles \cup { fresh_handle }
    /\ pc' = "opened"
    /\ n' = [ n EXCEPT !.open = @ + 1, !.openTotal = @ + 1 ]
    /\ UNCHANGED << callVars, ret, device, tableVars, openVars, ioVars >>

\* The underlying open failed: Retry, or Err once the closure gives up, and
\* then what the caller of Device::open does with the Err.  The Err carries
\* the error of this attempt, named here by the attempt's ordinal.
open_err ==
    /\ pc = "open"
    /\ IF open_gives_up(attemptOpen)
       THEN /\ CASE openFor = "new" ->
                      /\ pc' = "start"
                      /\ ret' = [ RetErr("OpenFailure", "open") EXCEPT !.attempt = n.open + 1 ]
                 [] openFor = "reconnect" ->
                      /\ pc' = "idle"
                      /\ ret' = [ RetErr("OpenFailure", "open") EXCEPT !.attempt = n.open + 1 ]
                 [] openFor = "write" ->
                      Panic("ReconnectFailed", "unwrap")
            /\ UNCHANGED attemptOpen
       ELSE /\ attemptOpen' = attemptOpen + 1
            /\ UNCHANGED << pc, ret >>
    /\ n' = [ n EXCEPT !.open = @ + 1, !.openFail = @ + 1, !.openTotal = @ + 1 ]
    /\ UNCHANGED << callVars, openFor, handleVars, tableVars, ioVars >>

\* Device::new builds the Device around the opened handle.
new_return ==
    /\ pc = "opened"
    /\ openFor = "new"
    /\ device' = opened
    /\ features_index' = << >>
    /\ pc' = "idle"
    /\ ret' = RetOk
    /\ UNCHANGED << callVars, handles, opened, initPos, initLocal, answers,
                    lastInit, prevInit, openVars, ioVars, n >>

\* Device::reconnect called by the program: self.device = opened; the
\* handle it replaces is dropped.
reconnect_return ==
    /\ pc = "opened"
    /\ openFor = "reconnect"
    /\ LET self == reconnect_assign([ device |-> device,
                                      features_index |-> features_index ], opened)
       IN  /\ device' = self.device
           /\ features_index' = self.features_index
    /\ handles' = { opened }
    /\ pc' = "idle"
    /\ ret' = RetOk
    /\ UNCHANGED << callVars, opened, initPos, initLocal, answers, lastInit, prevInit,
                    openVars, ioVars, n >>

\* Device::reconnect called by Device::write's closure, which then asks for
\* a retry: retry_with_index runs the closure again with the next index.
write_retry ==
    /\ pc = "opened"
    /\ openFor = "write"
    /\ LET self == reconnect_assign([ device |-> device,
                                      features_index |-> features_index ], opened)
       IN  /\ device' = self.device
           /\ features_index' = self.features_index
    /\ handles' = { opened }
    /\ pc' = "write"
    /\ attemptWrite' = attemptWrite + 1
    /\ NoOpen
    /\ n' = [ n EXCEPT !.rcDone = @ + 1, !.open = 0, !.openFail = 0 ]
    /\ UNCHANGED << callVars, ret, opened, initPos, initLocal, answers, lastInit,
                    prevInit, buf, wire, readReq, rbuf, wres >>

\* ------------------------------------------------------ Device::write
\* self.device.write(buf) succeeded.
write_ok ==
    /\ pc = "write"
    /\ wire' = buf
    /\ n' = [ n EXCEPT !.write = @ + 1 ]
    /\ pc' = "read"
    /\ UNCHANGED << callVars, ret, handleVars, tableVars, openVars,
                    attemptWrite, buf, readReq, rbuf, wres >>

\* self.device.write(buf) failed: give up (the Err meets .expect), or
\* reconnect and retry.
write_err ==
    /\ pc = "write"
    /\ wire' = buf
    /\ IF write_gives_up(attemptWrite)
       THEN /\ Panic("WriteFailed", "expect")
            /\ n' = [ n EXCEPT !.write = @ + 1, !.wfail = @ + 1 ]
            /\ UNCHANGED << openVars, attemptWrite >>
       ELSE IF write_reconnects(attemptWrite)
       THEN /\ StartOpen("write", [ n EXCEPT !.write = @ + 1, !.wfail = @ + 1,
                                             !.rcStart = @ + 1 ])
            /\ UNCHANGED << ret, attemptWrite >>
       ELSE /\ attemptWrite' = attemptWrite + 1
            /\ n' = [ n EXCEPT !.write = @ + 1, !.wfail = @ + 1 ]
            /\ UNCHANGED << pc, ret, openVars >>
    /\ UNCHANGED << callVars, handleVars, tableVars, buf, readReq, rbuf, wres >>

\* self.device.read_timeout(&mut buf, 100) returned Err: `?` returns it.
read_err ==
    /\ pc = "read"
    /\ readReq' = [ len |-> ReadBufLen, timeout |-> ReadTimeout,
                    handle |-> read_handle(device, atCall.device), got |-> -1 ]
    /\ n' = [ n EXCEPT !.read = @ + 1 ]
    /\ wres' = "err"
    /\ pc' = "wrote"
    /\ UNCHANGED << callVars, ret, handleVars, tableVars, openVars, attemptWrite,
                    buf, wire, rbuf >>

\* read_timeout returned Ok(len): the count is dropped, the buffer returned.
read_ok ==
    /\ pc = "read"
    /\ \E frame \in DeviceFrames, len \in ReadLens :
         /\ rbuf' = read_buffer(frame, len)
         /\ readReq' = [ len |-> ReadBufLen, timeout |-> ReadTimeout,
                         handle |-> read_handle(device, atCall.device), got |-> len ]
    /\ n' = [ n EXCEPT !.read = @ + 1 ]
    /\ wres' = "ok"
    /\ pc' = "wrote"
    /\ UNCHANGED << callVars, ret, handleVars, tableVars, openVars, attemptWrite,
                    buf, wire >>

\* ------------------------------------------ the callers of Device::write
\* The program called write itself.
write_return ==
    /\ pc = "wrote"
    /\ call = "write"
    /\ ret' = IF wres = "ok" THEN [ RetOk EXCEPT !.bytes = rbuf ]
              ELSE RetErr("ReadError", "read_timeout")
    /\ pc' = "idle"
    /\ UNCHANGED << callVars, handleVars, tableVars, openVars, ioVars, n >>

\* get_feature_index: request.send(self).unwrap(), response.data[0]; then
\* init inserts it and goes on to the next feature or stores the map.
get_feature_index_return ==
    /\ pc = "wrote"
    /\ call = "init"
    /\ LET s == send_result(wres, rbuf)
       IN  IF s.kind # "ok"
           THEN /\ Panic(s.error, "unwrap")
                /\ UNCHANGED << tableVars, ioVars, n >>
           ELSE LET local == init_insert(initLocal, init_features[initPos],
                                         get_feature_index_result(s.msg))
                IN  /\ initLocal' = local
                    /\ answers' = Append(answers, rbuf[HeaderLen + 1])
                    /\ IF initPos < Len(init_features)
                       THEN /\ initPos' = initPos + 1
                            /\ StartWrite(send_buf(get_feature_index_request(
                                              init_features[initPos + 1])), n)
                            /\ UNCHANGED << ret, features_index, lastInit >>
                       ELSE /\ features_index' = init_commit(features_index, local)
                            /\ lastInit' = [ done |-> TRUE, answers |-> answers' ]
                            /\ pc' = "idle"
                            /\ ret' = RetOk
                            /\ UNCHANGED << initPos, ioVars, n >>
    /\ UNCHANGED << callVars, handleVars, openFor, attemptOpen, prevInit >>

\* send_feature: request.send(self).unwrap(), Ok(response); get_battery
\* decodes the response it got through `?`.
send_feature_return ==
    /\ pc = "wrote"
    /\ call \in { "send_feature", "get_battery" }
    /\ LET s == send_result(wres, rbuf)
       IN  IF s.kind # "ok"
           THEN Panic(s.error, "unwrap")
           ELSE /\ pc' = "idle"
                /\ ret' = IF call = "send_feature" THEN [ RetOk EXCEPT !.msg = s.msg ]
                          ELSE get_battery_result(s.msg)
    /\ UNCHANGED << callVars, handleVars, tableVars, openVars, ioVars, n >>

Next ==
    \/ CallNew
    \/ CallReconnect
    \/ CallWrite
    \/ CallInit
    \/ CallIndexFor
    \/ CallSendFeature
    \/ CallGetBattery
    \/ open_hidapi_err
    \/ open_ok
    \/ open_err
    \/ new_return
    \/ reconnect_return
    \/ write_retry
    \/ write_ok
    \/ write_err
    \/ read_err
    \/ read_ok
    \/ write_return
    \/ get_feature_index_return
    \/ send_feature_return

Spec == Init /\ [][Next]_vars

\* =================================================================
\* Properties
\* =================================================================
\* The methods that go through Device::write.
Writers == { "write", "init", "send_feature", "get_battery" }

\* The method returned to the program.
Returned == pc \in { "idle", "start" } /\ ret.kind # "none"

\* C1: Device::open makes k+1 underlying open attempts when the open fails
\* k <= 5 times and then succeeds; when every open fails it makes exactly 6
\* attempts, never a 7th, and the error it returns is the one of the 6th.
OpenRetryBound ==
    /\ n.open <= 6
    /\ pc = "opened" => n.openFail <= 5 /\ n.open = n.openFail + 1
    /\ ret.error \in { "OpenFailure", "ReconnectFailed" } =>
         n.open = 6 /\ n.openFail = 6
    /\ ret.error = "OpenFailure" => ret.kind = "err" /\ ret.attempt = 6

\* C1 witness: four failed opens, then the fifth attempt succeeded.
OpenFifthAttemptSucceeds ==
    pc = "opened" /\ openFor = "new" /\ n.openFail = 4 /\ n.open = 5

\* C2: in Device::write each failed write that is retried is followed by
\* exactly one reconnect, finished before the next write attempt; no write
\* attempt follows a failure without it, and none follows a successful write.
WriteReconnectDiscipline ==
    call \in Writers =>
      /\ pc = "write" =>
           n.write = n.wfail /\ n.rcStart = n.wfail /\ n.rcDone = n.wfail
      /\ pc \in { "open", "opened" } =>
           n.write = n.wfail /\ n.rcStart = n.wfail /\ n.rcDone = n.wfail - 1
      /\ (pc \in { "read", "wrote" } \/ (Returned /\ n.req > 0)) =>
           n.write = n.wfail + 1 /\ n.rcStart = n.wfail /\ n.rcDone = n.wfail

\* C2 witness: two failed writes, two finished reconnects, the third write
\* succeeded.
WriteAfterTwoReconnects ==
    pc = "read" /\ n.wfail = 2 /\ n.rcDone = 2 /\ n.write = 3

\* C3: when every underlying write fails, Device::write gives up after
\* more than 5 failed attempts and its caller receives an error result.
WriteFailureIsAnErrorResult ==
    n.wfail > 5 =>
      /\ pc # "panicked"
      /\ ret.kind = "err"
      /\ ret.error = "TransportWriteFailure"

\* C4: a read that timed out or delivered fewer than 7 bytes makes
\* Device::write report an error; its buffer is not returned as a response.
ShortReadIsAnError ==
    /\ n.read <= 1
    /\ readReq.got \in 0..6 => wres = "err" /\ ret.kind \notin { "ok" }

\* C5: the buffer Message::send hands to the transport write is 7 bytes:
\* tag 0x10, device index, feature index, function and software id nibbles,
\* three payload bytes.
SentFrameIsSevenBytes ==
    (call \in { "init", "send_feature", "get_battery" } /\ wire # << >>) =>
      /\ Len(wire) = 7
      /\ wire[1] = 16
      /\ wire[2] = DeviceIndex

\* C6: init sends no request for Root, and after an init the table maps
\* Root to 0 whatever the device answered.
RootIsNeverQueried ==
    /\ (call = "init" /\ pc \in { "write", "open", "opened", "read", "wrote" }) =>
         init_features[initPos] # "Root"
    /\ "Root" \in DOMAIN features_index => features_index["Root"] = 0

\* The device answered index 0 to the latest init's query for feature f.
AnsweredZero(f) ==
    /\ lastInit.done
    /\ \E i \in DOMAIN Catalog : Catalog[i] = f /\ lastInit.answers[i] = 0

\* C7: index_for fails with FeatureNotFound for a feature that no init
\* resolved or that the device answered 0x00 for, and send_feature sends no
\* request for such a feature.
UnresolvedLookupFails ==
    /\ (call = "index_for" /\ args.feature \notin DOMAIN atCall.table) =>
         ret.kind = "err" /\ ret.error = "FeatureNotFound"
    /\ (call = "index_for" /\ args.feature # "Root" /\ AnsweredZero(args.feature)) =>
         ret.kind = "err" /\ ret.error = "FeatureNotFound"
    /\ (call \in { "send_feature", "get_battery" } /\ args.feature # "Root"
          /\ AnsweredZero(args.feature)) =>
         n.req = 0 /\ ret.kind = "err" /\ ret.error = "FeatureNotFound"

\* C8: a response whose tag is none of 0x10, 0x11, 0x12 makes send_feature
\* return an UnknownReportId error to its caller, with no write, read or
\* reconnect after the frame was read.
BadTagIsReturnedAsError ==
    (call \in { "send_feature", "get_battery" } /\ wres = "ok" /\ pc # "wrote"
       /\ readReq.got = 7 /\ rbuf[1] \notin { 16, 17, 18 }) =>
      /\ pc = "idle"
      /\ ret.kind = "err"
      /\ ret.error = "UnknownReportId"
      /\ n.read = 1
      /\ n.write = n.wfail + 1
      /\ n.rcStart = n.wfail

\* C9: after a successful init the table holds, for each feature of the
\* catalog, the index this init's own query returned and nothing else; an
\* init that got the answers the previous init got leaves the table as it was.
InitReplacesTable ==
    (call = "init" /\ pc = "idle" /\ ret.kind = "ok") =>
      /\ DOMAIN features_index = Feature
      /\ Len(answers) = Len(Catalog)
      /\ \A i \in DOMAIN Catalog : features_index[Catalog[i]] = answers[i]
      /\ (prevInit.done /\ prevInit.answers = answers) =>
           features_index = atCall.table

\* C9 witness: a second init returned after the device changed an answer.
SecondInitWithOtherAnswers ==
    /\ call = "init" /\ pc = "idle" /\ ret.kind = "ok"
    /\ prevInit.done
    /\ prevInit.answers # answers
    /\ features_index # atCall.table

\* C10: send_feature for a feature without a table entry fails with
\* FeatureNotFound before any transport call and changes nothing; otherwise
\* it makes one request, whose feature index byte is the table's index and
\* whose function nibble is the function's opcode, and returns the decoded
\* response.
SendFeatureContract ==
    call = "send_feature" =>
      /\ args.feature \notin DOMAIN atCall.table =>
           /\ pc = "idle"
           /\ ret.kind = "err" /\ ret.error = "FeatureNotFound"
           /\ n = NoCount /\ wire = << >> /\ readReq = NoRead
           /\ device = atCall.device /\ handles = { device }
           /\ features_index = atCall.table
      /\ args.feature \in DOMAIN atCall.table =>
           /\ n.req = 1
           /\ wire # << >> =>
                /\ wire = buf
                /\ wire[3] = atCall.table[args.feature]
                /\ wire[4] \div 16 = Function_value(args.function)
           /\ (pc = "idle" /\ ret.kind = "ok") =>
                /\ n.read = 1
                /\ ret.msg.device_index = rbuf[2]
                /\ ret.msg.feature_index = rbuf[3]
                /\ ret.msg.function_index = rbuf[4] \div 16
                /\ ret.msg.software_id = rbuf[4] % 16
                /\ ret.msg.data = << rbuf[5], rbuf[6], rbuf[7] >>

\* C10 witness: a request for a feature resolved to index 6 returned a
\* response after one failed write.
SendFeatureToResolvedIndex ==
    /\ call = "send_feature" /\ pc = "idle" /\ ret.kind = "ok"
    /\ args.feature = "UnifiedBattery"
    /\ atCall.table = features_index
    /\ features_index["UnifiedBattery"] = 6
    /\ n.wfail = 1

\* ------------------------------------------------------------------ C11
\* C11: get_battery sends UnifiedBattery/GetStatus with an empty payload
\* and, for a Short response [0x10, d, i, b3, p, l, s], returns
\* (p, BatteryLevel(l), BatteryStatus(s)) when l is in 0..8 and s in 0..6;
\* it returns an error, not a value, when l > 8 or s > 6 or the response
\* payload has fewer than 3 bytes.
GetBatteryContract ==
    (call = "get_battery" /\ args.feature \in DOMAIN atCall.table) =>
      /\ wire # << >> =>
           /\ wire[3] = atCall.table["UnifiedBattery"]
           /\ wire[4] \div 16 = Function_value("UnifiedBatteryGetStatus")
           /\ \A i \in HeaderLen + 1 .. Len(wire) : wire[i] = 0
      /\ (pc \in { "idle", "panicked" } /\ wres = "ok" /\ rbuf[1] = to_u8("Short")) =>
           IF readReq.got - HeaderLen < 3 \/ rbuf[6] > 8 \/ rbuf[7] > 6
           THEN ret.kind = "err"
           ELSE /\ ret.kind = "ok"
                /\ ret.battery = << rbuf[5], BatteryLevel_try_from(rbuf[6]).v,
                                    BatteryStatus_try_from(rbuf[7]).v >>

\* ------------------------------------------------------------ codec runs
\* The wire codec and the battery decoders, each applied to an input on
\* its own: no Device is constructed in these runs.

\* Byte 0 of a buffer given to Message::try_from: the three report tags
\* and values around them.
FrameTags == { 0, 16, 17, 18, 19, 255 }

\* buf[4..] of such a buffer: nothing, three bytes (a Short report),
\* sixteen (Long), sixty (VeryLong).
FramePayloads ==
    { << >>, <<0, 0, 0>>, <<55, 4, 1>>, <<255, 255, 255>>,
      [ i \in 1..16 |-> i ], [ i \in 1..60 |-> 255 - i ] }

\* Buffers that end before buf[4..].
TruncatedFrames == { << >>, <<16>>, <<19>>, <<17, 1, 0>> }

\* Vec<u8> values given to Message::try_from.
Frames ==
    { << t, d, f, b >> \o p :
        t \in FrameTags, d \in { DeviceIndex, DefaultDeviceIndex }, f \in { 0, 6 },
        b \in 0..255, p \in FramePayloads }
    \cup TruncatedFrames

\* Messages a caller can make with MessageBuilder.  function_index and
\* software_id are u8 setters: 16 and 17 do not fit a nibble.
Messages ==
    { build(set_data(set_software_id(set_function_index(set_device_index(
          new_short(f, "RootGetFeature"), d), fi), sw), p)) :
        f \in { 0, 6 }, d \in { DeviceIndex, DefaultDeviceIndex },
        fi \in 0..17, sw \in 0..17, p \in { << >>, <<170, 187, 204, 221>> } }

\* u8 values given to BatteryLevel::try_from and BatteryStatus::try_from.
Bytes == 0..255

deviceVars ==
    << pc, call, args, calls, ret, n, atCall, handleVars, tableVars, openVars, ioVars >>

\* One input: a buffer, a built message or a byte.
InitCodec ==
    /\ InitDevice
    /\ cout = << >>
    /\ cres = [ kind |-> "none" ]
    /\ \/ cstep = "frame" /\ cframe \in Frames /\ cmsg = NoMsg /\ cbyte = 0
       \/ cstep = "message" /\ cframe = << >> /\ cmsg \in Messages /\ cbyte = 0
       \/ cstep = "byte" /\ cframe = << >> /\ cmsg = NoMsg /\ cbyte \in Bytes

\* Message::try_from(buf)
decode_frame ==
    /\ cstep = "frame"
    /\ cres' = try_from(cframe)
    /\ cstep' = "decoded"
    /\ UNCHANGED << cframe, cmsg, cbyte, cout, deviceVars >>

\* Message::send's buffer for the message just decoded.
encode_decoded ==
    /\ cstep = "decoded"
    /\ cres.kind = "ok"
    /\ cout' = send_buf(cres.msg)
    /\ cstep' = "reencoded"
    /\ UNCHANGED << cframe, cmsg, cbyte, cres, deviceVars >>

\* Message::send's buffer for a built message.
encode_message ==
    /\ cstep = "message"
    /\ cout' = send_buf(cmsg)
    /\ cstep' = "encoded"
    /\ UNCHANGED << cframe, cmsg, cbyte, cres, deviceVars >>

\* Message::try_from on the buffer Message::send built.
decode_encoded ==
    /\ cstep = "encoded"
    /\ cres' = try_from(cout)
    /\ cstep' = "redecoded"
    /\ UNCHANGED << cframe, cmsg, cbyte, cout, deviceVars >>

\* BatteryLevel::try_from(value)
decode_level ==
    /\ cstep = "byte"
    /\ cres' = BatteryLevel_try_from(cbyte)
    /\ cstep' = "level"
    /\ UNCHANGED << cframe, cmsg, cbyte, cout, deviceVars >>

\* BatteryStatus::try_from(value)
decode_status ==
    /\ cstep = "byte"
    /\ cres' = BatteryStatus_try_from(cbyte)
    /\ cstep' = "status"
    /\ UNCHANGED << cframe, cmsg, cbyte, cout, deviceVars >>

NextCodec ==
    \/ decode_frame
    \/ encode_decoded
    \/ encode_message
    \/ decode_encoded
    \/ decode_level
    \/ decode_status

SpecCodec == InitCodec /\ [][NextCodec]_vars

\* ------------------------------------------------------------------ C12
\* C12: decoding a 7-byte sequence whose first byte is the Short tag 0x10
\* and then encoding the resulting message reproduces the original 7
\* bytes exactly.
ShortRoundTrip ==
    (cstep = "reencoded" /\ Len(cframe) = 7 /\ cframe[1] = 16) => cout = cframe

\* ------------------------------------------------------------------ C13
\* C13: for every function_index and software_id in 0..15, with any
\* device_index and feature_index, byte 3 of the encoded frame holds
\* function_index in its high nibble and software_id in its low nibble,
\* and decoding the encoded frame yields the same function_index and
\* software_id (and the same device_index and feature_index).
NibblesSurviveEncodeDecode ==
    (cstep \in { "encoded", "redecoded" }
       /\ cmsg.function_index \in 0..15 /\ cmsg.software_id \in 0..15) =>
      /\ cout[4] \div 16 = cmsg.function_index
      /\ cout[4] % 16 = cmsg.software_id
      /\ cstep = "redecoded" =>
           /\ cres.kind = "ok"
           /\ cres.msg.function_index = cmsg.function_index
           /\ cres.msg.software_id = cmsg.software_id
           /\ cres.msg.device_index = cmsg.device_index
           /\ cres.msg.feature_index = cmsg.feature_index

\* C13 witness: function_index 10 and software_id 5 were encoded as 0xA5
\* and decoded back.
NibblesA5Decoded ==
    /\ cstep = "redecoded"
    /\ cmsg.function_index = 10 /\ cmsg.software_id = 5
    /\ cout[4] = 165
    /\ cres.kind = "ok"
    /\ cres.msg.function_index = 10 /\ cres.msg.software_id = 5

\* ------------------------------------------------------------------ C14
\* C14: decode checks the frame length against the report type: a frame
\* whose length is not the one implied by its tag (7 for Short 0x10, 20
\* for Long 0x11, 64 for VeryLong 0x12) is rejected with a decode error,
\* so a 7-byte frame tagged 0x11 or 0x12 is never returned as a valid
\* message.
LengthMismatchIsRejected ==
    (cstep = "decoded" /\ Len(cframe) >= HeaderLen /\ cframe[1] \in { 16, 17, 18 }
       /\ Len(cframe) # (CASE cframe[1] = 16 -> 7 [] cframe[1] = 17 -> 20
                           [] cframe[1] = 18 -> 64)) =>
      cres.kind = "err"

BatteryLevelPartition ==
    cstep = "level" =>
      /\ cbyte = 0 <=> (cres.kind = "ok" /\ cres.v = "Empty")
      /\ cbyte = 1 <=> (cres.kind = "ok" /\ cres.v = "Critical")
      /\ cbyte \in 2..3 <=> (cres.kind = "ok" /\ cres.v = "Low")
      /\ cbyte \in 4..7 <=> (cres.kind = "ok" /\ cres.v = "Good")
      /\ cbyte = 8 <=> (cres.kind = "ok" /\ cres.v = "Full")
      /\ cbyte \in 9..255 <=> (cres.kind = "err" /\ cres.v = "InvalidBatteryLevel")

\* C16 witness: byte 4, the first of the Good range, was decoded.
LevelFourIsGood ==
    cstep = "level" /\ cbyte = 4 /\ cres.kind = "ok" /\ cres.v = "Good"

\* ------------------------------------------------------------------ C17
\* C17: BatteryStatus decode maps bytes 0x00..0x06 one-to-one, in
\* declaration order, to Discharging, Recharging, AlmostFull, Full,
\* SlowRecharge, InvalidBattery, ThermalError, and rejects every byte from
\* 0x07 to 0xFF with InvalidBatteryStatus.
BatteryStatusTable ==
    cstep = "status" =>
      IF cbyte \in 0..6
      THEN /\ cres.kind = "ok"
           /\ cres.v = << "Discharging", "Recharging", "AlmostFull", "Full",
                          "SlowRecharge", "InvalidBattery", "ThermalError" >>[cbyte + 1]
      ELSE cres.kind = "err" /\ cres.v = "InvalidBatteryStatus"

\* C17 witness: byte 0x07, the first one past the table, was rejected.
StatusSevenRejected ==
    cstep = "status" /\ cbyte = 7 /\ cres.kind = "err" /\ cres.v = "InvalidBatteryStatus"

\* ------------------------------------------------------------------ C18
\* C18: at no point in any execution do two live physical handles for the
\* same device coexist: in a reconnect, also one made inside a write
\* retry, the old handle is released before or together with the
\* acquisition of the new one.
AtMostOneLiveHandle == Cardinality(handles) <= 1

\* ------------------------------------------------------------------ C19
\* C19: for each non-Root feature of the catalog, init sends exactly one
\* Short request with feature_index 0, function nibble 0 (Root
\* GetFeature), software_id 0x01 and payload = the feature's 16-bit
\* identifier big-endian in bytes 4..5 followed by a zero byte, and stores
\* payload byte 0 of the response to that request as the feature's index;
\* requests are issued in catalog order and each response is consumed
\* before the next request is written.
FeatureResolutionHandshake ==
    call = "init" =>
      /\ initPos \in DOMAIN Catalog
      /\ n.req = initPos
      /\ n.read <= 1
      /\ wire # << >> =>
           /\ wire[1] = 16
           /\ wire[3] = 0
           /\ wire[4] \div 16 = 0
           /\ wire[4] % 16 = 1
           /\ wire[5] * 256 + wire[6] = Feature_value(Catalog[initPos])
           /\ wire[7] = 0
      /\ IF pc = "idle"
         THEN /\ initPos = Len(Catalog)
              /\ Len(answers) = Len(Catalog)
              /\ answers[initPos] = rbuf[5]
              /\ \A i \in 2..Len(Catalog) : features_index[Catalog[i]] = answers[i]
         ELSE /\ Len(answers) = initPos - 1
              /\ \A i \in 2..(initPos - 1) : initLocal[Catalog[i]] = answers[i]
              /\ (pc = "wrote" /\ wres = "ok") => n.read = 1

\* C19 witness: init returned after the last request, for UnifiedBattery
\* (0x1004), was answered with index 6.
UnifiedBatteryResolvedLast ==
    /\ call = "init" /\ pc = "idle" /\ ret.kind = "ok"
    /\ n.req = Len(Catalog)
    /\ wire[5] = 16 /\ wire[6] = 4
    /\ rbuf[5] = 6
    /\ features_index["UnifiedBattery"] = 6
    /\ features_index["FeatureSet"] = 1

\* ------------------------------------------------------------------ C20
\* C20: every transport operation terminates: Device::open ends after at
\* most 6 underlying open attempts, and Device::write, nested reconnects
\* included, ends after at most 6 underlying write attempts, at most 5
\* reconnects, at most 30 underlying open attempts and at most one read.
TransportBounds ==
    /\ n.open <= 6
    /\ n.write <= 6
    /\ n.rcStart <= 5
    /\ n.rcDone <= n.rcStart
    /\ n.openTotal <= 30
    /\ n.read <= 1
    /\ (n.read = 1 \/ n.open = 6 \/ (n.write = 6 /\ pc # "read")) =>
         pc \in { "start", "idle", "opened", "wrote", "panicked" }

\* C20 witness: a write reached its read after 6 write attempts, 5
\* reconnects and 30 underlying opens.
WriteAfterThirtyOpens ==
    /\ pc = "read"
    /\ n.write = 6 /\ n.rcDone = 5 /\ n.openTotal = 30 /\ n.read = 0

\* The transport on its own: Device::new, reconnect and write, run to
\* completion.  The program is one thread, so a step that can be taken is
\* taken.
NextTransport ==
    \/ CallNew
    \/ CallReconnect
    \/ CallWrite
    \/ open_hidapi_err
    \/ open_ok
    \/ open_err
    \/ new_return
    \/ reconnect_return
    \/ write_retry
    \/ write_ok
    \/ write_err
    \/ read_err
    \/ read_ok
    \/ write_return

SpecTransport == Init /\ [][NextTransport]_vars /\ WF_vars(NextTransport)

\* C20, as a property of whole runs: the bounds hold at every point, and
\* an operation that has started returns or panics.
TransportTerminates ==
    /\ []TransportBounds
    /\ (pc \in { "open", "opened", "write", "read", "wrote" })
         ~> (pc \in { "start", "idle", "panicked" })

\* ----------------------------------------------------------- a session
\* A Device just constructed: Device::new returned Ok on its first open.
\* calls counts the methods called on it.
InitSession ==
    /\ pc = "idle"
    /\ call = "new"
    /\ args = NoArgs
    /\ calls = 0
    /\ ret = RetOk
    /\ openFor = "new"
    /\ attemptOpen = 1
    /\ attemptWrite = 0
    /\ device = 1
    /\ handles = { 1 }
    /\ opened = 1
    /\ features_index = << >>
    /\ initPos = 0
    /\ initLocal = << >>
    /\ buf = << >>
    /\ n = [ NoCount EXCEPT !.open = 1, !.openTotal = 1 ]
    /\ wire = << >>
    /\ readReq = NoRead
    /\ rbuf = << >>
    /\ wres = "none"
    /\ atCall = [ table |-> << >>, device |-> 0, last |-> NoLast ]
    /\ answers = << >>
    /\ lastInit = [ done |-> FALSE, answers |-> << >> ]
    /\ prevInit = [ done |-> FALSE, answers |-> << >> ]
    /\ CodecOff

\* init and lookups on a constructed Device.
NextLookup ==
    \/ CallInit
    \/ CallIndexFor
    \/ open_hidapi_err
    \/ open_ok
    \/ open_err
    \/ write_retry
    \/ write_ok
    \/ write_err
    \/ read_err
    \/ read_ok
    \/ get_feature_index_return

SpecLookup == InitSession /\ [][NextLookup]_vars

\* ------------------------------------------------------------------ C21
\* C21: after one init, looking the same feature up any number of times
\* returns the same index each time and issues no device I/O: index_for
\* performs no write, read or open and changes neither the table nor the
\* handle.
LookupIsIdempotent ==
    (call = "index_for" /\ lastInit.done) =>
      /\ pc = "idle"
      /\ ret.kind = "ok"
      /\ ret.idx = atCall.table[args.feature]
      /\ \A i \in DOMAIN Catalog :
           Catalog[i] = args.feature => ret.idx = lastInit.answers[i]
      /\ (atCall.last.call = "index_for" /\ atCall.last.feature = args.feature) =>
           /\ atCall.last.kind = "ok"
           /\ ret.idx = atCall.last.idx
      /\ n = NoCount /\ wire = << >> /\ readReq = NoRead
      /\ features_index = atCall.table
      /\ device = atCall.device /\ handles = { device }

\* C21 witness: UnifiedBattery, resolved to 6 by the one init, was looked
\* up twice in a row.
SecondLookupOfUnifiedBattery ==
    /\ call = "index_for" /\ args.feature = "UnifiedBattery"
    /\ lastInit.done /\ ~prevInit.done
    /\ atCall.last.call = "index_for" /\ atCall.last.feature = "UnifiedBattery"
    /\ atCall.last.idx = 6
    /\ ret.idx = 6

\* ------------------------------------------------------------------ C22
\* C22: the FeatureIndexTable is changed only by init: send_feature,
\* get_battery, write, reconnect and index_for, whether they succeed or
\* fail and even when they replace the physical handle, leave every table
\* entry unchanged, and the table never holds more than one index per
\* Feature.
TableUnchangedOutsideInit ==
    /\ call \in { "send_feature", "get_battery", "write", "reconnect", "index_for" } =>
         features_index = atCall.table
    /\ DOMAIN features_index \subseteq Feature
    /\ \A f \in DOMAIN features_index : features_index[f] \in 0..255

TableChangedOnlyByInit ==
    /\ []TableUnchangedOutsideInit
    /\ [][features_index' # features_index => call = "init" /\ call' = "init"]_vars

\* C22 witness: a send_feature returned after a reconnect replaced the
\* handle, with the table the one init built.
TableKeptAcrossReconnect ==
    /\ call = "send_feature" /\ pc = "idle" /\ ret.kind = "ok"
    /\ device # atCall.device
    /\ DOMAIN atCall.table = Feature
    /\ features_index = atCall.table

\* ------------------------------------------------------------------ C23
\* C23: every frame the Device writes for init's resolution requests and
\* for send_feature's requests carries a nonzero device_index in byte 1
\* and a nonzero software_id in the low nibble of byte 3, and its payload
\* bytes 4..6 are exactly the caller's payload zero-padded or truncated
\* to 3 bytes.
OutboundFrameShape ==
    (call \in { "init", "send_feature", "get_battery" } /\ wire # << >>) =>
      LET payload == IF call = "init"
                     THEN << Feature_value(Catalog[initPos]) \div 256,
                             Feature_value(Catalog[initPos]) % 256 >>
                     ELSE args.payload
      IN  /\ wire[2] # 0
          /\ wire[4] % 16 # 0
          /\ \A i \in 1..3 :
               wire[4 + i] = IF i <= Len(payload) THEN payload[i] ELSE 0
          /\ \A i \in 8..Len(wire) : wire[i] = 0

\* C23 witness: a send_feature with a 4-byte payload was written with the
\* fourth byte cut off.
FourBytePayloadTruncated ==
    /\ call = "send_feature"
    /\ args.payload = <<170, 187, 204, 221>>
    /\ wire = <<16, 1, 6, 17, 170, 187, 204, 0, 0, 0, 0>>

\* ------------------------------------------------------------------ C24
\* C24: the table is all-or-nothing: in every reachable state it is
\* either empty (no init has completed) or has an entry for every one of
\* the 8 cataloged features, and an init that is aborted partway by a
\* transport or decode fault leaves the table exactly as it was before
\* that init started.
TableAllOrNothing ==
    /\ features_index = << >> \/ DOMAIN features_index = Feature
    /\ features_index = << >> <=> ~lastInit.done
    /\ Cardinality(Feature) = 8
    /\ (call = "init" /\ ~(pc = "idle" /\ ret.kind = "ok")) =>
         features_index = atCall.table

\* C24 witness: a second init was aborted after five answers; the table
\* is still the complete one of the first init.
SecondInitAbortedPartway ==
    /\ call = "init" /\ pc = "panicked"
    /\ Len(answers) = 5
    /\ DOMAIN initLocal # Feature
    /\ DOMAIN atCall.table = Feature
    /\ features_index = atCall.table

\* ------------------------------------------------------------------ C25
\* C25: a read is issued only after a successful write and on the handle
\* that write succeeded on: no read happens while the write is still
\* failing or after it was given up on, and when the write succeeds after
\* reconnects the single read is performed on the most recently opened
\* handle, never on a handle that was replaced.
ReadOnlyAfterWrite ==
    /\ pc = "read" =>
         /\ n.write = n.wfail + 1 /\ n.read = 0
         /\ n.rcDone = n.wfail
         /\ device = opened /\ handles = { device }
    /\ n.read >= 1 =>
         /\ n.read = 1
         /\ n.write = n.wfail + 1
         /\ readReq.handle = device
         /\ device = opened /\ handles = { device }
    /\ pc \in { "write", "open", "opened" } => n.read = 0 /\ readReq = NoRead
    /\ (pc = "panicked" /\ ret.error \in { "WriteFailed", "ReconnectFailed" }) =>
         n.read = 0 /\ readReq = NoRead

ReadFollowsWriteOnSameHandle ==
    /\ []ReadOnlyAfterWrite
    /\ [][/\ pc' = "read" => (pc = "write" /\ device' = device)
          /\ pc = "read" => (/\ pc' = "wrote"
                             /\ device' = device
                             /\ readReq'.handle = device)]_vars

\* C25 witness: a write that succeeded after one reconnect was followed
\* by its read on the new handle.
ReadOnReconnectedHandle ==
    /\ call = "write" /\ pc = "wrote"
    /\ n.rcDone = 1 /\ n.read = 1
    /\ atCall.device = 1
    /\ device = 2
    /\ readReq.handle = 2

\* ------------------------------------------------------------------ C26
\* C26: a failed reconnect ends the write: if the reconnect triggered by
\* a failed write itself fails (its 6 open attempts are exhausted),
\* Device::write makes no further underlying write attempt and no read,
\* the Device keeps the handle it had before that reconnect, and the
\* operation ends in a failure outcome rather than a returned response.
ReconnectFailureState ==
    (pc = "panicked" /\ ret.error = "ReconnectFailed") =>
      /\ call \in Writers
      /\ ret.kind = "panic"
      /\ n.open = 6 /\ n.openFail = 6
      /\ n.write = n.wfail
      /\ n.wfail = n.rcStart
      /\ n.rcStart = n.rcDone + 1
      /\ n.read = 0 /\ readReq = NoRead
      /\ device = opened /\ handles = { device }
      /\ (n.rcDone = 0 /\ n.req = 1) => device = atCall.device

FailedReconnectEndsWrite ==
    /\ []ReconnectFailureState
    /\ [][pc # "panicked"]_vars

\* C26 witness: the second reconnect of a write failed; the Device still
\* holds the handle the first reconnect gave it.
SecondReconnectFailed ==
    /\ call = "write" /\ pc = "panicked" /\ ret.error = "ReconnectFailed"
    /\ n.rcDone = 1 /\ n.write = 2
    /\ atCall.device = 1
    /\ device = 2

====
